---- MODULE Spec2Model ----
(***************************************************************************)
(* GyroCam, the visual horizon stabilizer of src/script.js, as a state     *)
(* machine.                                                                *)
(*                                                                         *)
(* Numbers.  Angles (degrees) and indicator coordinates (percent) are      *)
(* fixed-point integers, 10000 units to one degree or one percent, so that *)
(* 1.5, 1.5001, 10 and 10.0001 are all exact.  Products with a fractional  *)
(* factor (0.12, 1/60, 0.5) round to the nearest unit, where the code      *)
(* rounds to the nearest double.  Negation, subtraction and comparison are *)
(* exact, as they are on these values in the code.                         *)
(*                                                                         *)
(* Scheduling.  The page runs on one event loop.  Every action below is    *)
(* one task of that loop (a click, a sensor event, a timer, an animation   *)
(* frame, a settled platform promise) or one promise continuation of       *)
(* enableMotion (a microtask).  A pending continuation runs before any     *)
(* further task, which is the guard NoMicrotask of the task actions.       *)
(***************************************************************************)
EXTENDS Integers, Sequences, FiniteSets, TLC

\* ------------------------------------------------------------------ bounds
\* enableMotion calls made in one run (clicks on the motion button)
MaxCalls == 2
\* the handler's attempts counter saturates here (the code only tests > 5)
MaxAttempts == 6
\* the clock stops after this many FPS sample intervals
MaxFrames == 3
\* startCamera clicks in one run
MaxCameraCalls == 2
\* tracks of one camera stream
MaxTracks == 2

\* milliseconds between two animation frames where frames are counted
FrameMs == 50
\* the rounding the fixed-point filter may accumulate, in units
FilterTolerance == 10

Calls == 1..MaxCalls

\* --------------------------------------------------------------- constants
Unit == 100 * 100
Deg(n) == n * Unit
LEVEL_THRESHOLD_DEG == 15000
TILTED_THRESHOLD_DEG == 100000
FPS_SAMPLE_INTERVAL_MS == 500
ALPHA_PERCENT == 12
DOT_CENTER == 500000
DOT_MAX == 980000
\* a number that is not a number, and the null reference of an event field
NaN == 99999999
Null == 88888888

IsNaN(v) == v = NaN

Abs(x) == IF x < 0 THEN -x ELSE x
Min(a, b) == IF a < b THEN a ELSE b
Max(a, b) == IF a > b THEN a ELSE b

\* a / b rounded to the nearest integer, halves away from zero (b > 0)
RoundDiv(a, b) ==
  IF a >= 0 THEN (2 * a + b) \div (2 * b) ELSE -((2 * (-a) + b) \div (2 * b))

\* Number.prototype.toFixed(1): the value in tenths
toFixed1(x) == RoundDiv(x, 1000)

\* Math.round((frameCount / elapsed) * 1000)
fpsOf(count, elapsed) == (2 * count * 1000 + elapsed) \div (2 * elapsed)

\* ------------------------------------------------------------------- state
VARIABLES
  state,      \* the state object of the module (script.js 57-86, 348)
  dom,        \* what the page shows: buttons, badge, transform, texts
  calls,      \* the closures of the enableMotion calls: position, resolved, attempts
  plat,       \* the platform: sensors, listeners, timers, frames, tracks, clock
  hist        \* history: what has happened, which the code does not record

vars == <<state, dom, calls, plat, hist>>

\* The four parts as one value, for the functions that model the code.
World == [st |-> state, dom |-> dom, cl |-> calls, pl |-> plat]

Becomes(w) ==
  /\ state' = w.st
  /\ dom' = w.dom
  /\ calls' = w.cl
  /\ plat' = w.pl

InitState ==
  [ cameraStream |-> 0, motionEnabled |-> FALSE, smoothingEnabled |-> TRUE,
    sensorType |-> "none",
    rawGamma |-> 0, rawBeta |-> 0, smoothedGamma |-> 0, calibrationOffset |-> 0,
    hasReceivedData |-> FALSE,
    dotPx |-> DOT_CENTER, dotPy |-> DOT_CENTER, dotVx |-> 0, dotVy |-> 0,
    sensorInstance |-> 0, animFrameId |-> 0,
    lastFrameTime |-> 0, frameCount |-> 0, currentFps |-> 0,
    isRecording |-> FALSE, mediaRecorder |-> 0, recordTimerInterval |-> FALSE,
    doeHandler |-> 0 ]

\* The page as loaded: only the camera button can be clicked, nothing is shown.
InitDom ==
  [ btnCameraDisabled |-> FALSE, btnMotionDisabled |-> TRUE,
    btnCalibrateDisabled |-> TRUE, btnRecordDisabled |-> TRUE,
    errorText |-> "", errorHidden |-> TRUE,
    rotation |-> 0, canvasRotation |-> 0, tiltValue |-> 0,
    horizonClass |-> "", badgeClass |-> "", badgeText |-> "",
    dotLeft |-> DOT_CENTER, dotTop |-> DOT_CENTER,
    debugHidden |-> TRUE, fpsDisplay |-> 0, rawText |-> 0, smoothText |-> 0 ]

InitCalls ==
  [ pc |-> [c \in Calls |-> "idle"],
    genResolved |-> [c \in Calls |-> FALSE],
    doeResolved |-> [c \in Calls |-> FALSE],
    attempts |-> [c \in Calls |-> 0],
    camPc |-> "idle", camCalls |-> 0 ]

InitPlat(aos, doe, req) ==
  [ hasAOS |-> aos, hasDOE |-> doe, hasRequestPermission |-> req,
    sensor |-> [c \in Calls |-> "none"],
    doeListener |-> [c \in Calls |-> FALSE],
    absListener |-> [c \in Calls |-> FALSE],
    timers |-> <<>>, raf |-> {}, lastHandle |-> 0, now |-> 0,
    tracks |-> [i \in 1..MaxCameraCalls |-> {}], recorder |-> "none" ]

\* ------------------------------------------------------------ error display
showError(w, msg) ==
  [w EXCEPT !.dom.errorText = msg, !.dom.errorHidden = FALSE]

hideError(w) == [w EXCEPT !.dom.errorHidden = TRUE]

\* ------------------------------------------------------------ signal filter
\* A filter step with a coefficient of 1.5, which passes the input.
lowPassOver(prev, raw) == prev + RoundDiv(150 * (raw - prev), 100)

\* A filter step that adds the correction twice.
lowPassTwice(prev, raw) == prev + 2 * RoundDiv(ALPHA_PERCENT * (raw - prev), 100)

\* The filter step: prev + SMOOTHING_ALPHA * (raw - prev).
lowPass(prev, raw) == prev + RoundDiv(ALPHA_PERCENT * (raw - prev), 100)

\* A filter that ignores the smoothing switch.
applySmoothingAlways(s, raw) ==
  IF IsNaN(s.smoothedGamma)
    THEN [st |-> [s EXCEPT !.smoothedGamma = raw], ret |-> raw]
    ELSE LET v == lowPass(s.smoothedGamma, raw)
         IN [st |-> [s EXCEPT !.smoothedGamma = v], ret |-> v]

\* A filter that forgets the calibration when smoothing is off.
applySmoothingResetting(s, raw) ==
  IF ~s.smoothingEnabled
    THEN [st |-> [s EXCEPT !.smoothedGamma = raw, !.calibrationOffset = 0],
          ret |-> raw]
    ELSE IF IsNaN(s.smoothedGamma)
      THEN [st |-> [s EXCEPT !.smoothedGamma = raw], ret |-> raw]
      ELSE LET v == lowPass(s.smoothedGamma, raw)
           IN [st |-> [s EXCEPT !.smoothedGamma = v], ret |-> v]

\* A filter that keeps its old state while smoothing is off.
applySmoothingStale(s, raw) ==
  IF ~s.smoothingEnabled
    THEN [st |-> s, ret |-> raw]
    ELSE IF IsNaN(s.smoothedGamma)
      THEN [st |-> [s EXCEPT !.smoothedGamma = raw], ret |-> raw]
      ELSE LET v == lowPass(s.smoothedGamma, raw)
           IN [st |-> [s EXCEPT !.smoothedGamma = v], ret |-> v]

\* applySmoothing(raw): the state it leaves and the value it returns.
applySmoothing(s, raw) ==
  IF ~s.smoothingEnabled
    THEN [st |-> [s EXCEPT !.smoothedGamma = raw], ret |-> raw]
    ELSE IF IsNaN(s.smoothedGamma)
      THEN [st |-> [s EXCEPT !.smoothedGamma = raw], ret |-> raw]
      ELSE LET v == lowPass(s.smoothedGamma, raw)
           IN [st |-> [s EXCEPT !.smoothedGamma = v], ret |-> v]

\* -------------------------------------------------------------- calibration
\* A calibration that leaves the indicator where it is.
calibrateOffsetOnly(s) == [s EXCEPT !.calibrationOffset = s.smoothedGamma]

\* A calibration that takes the raw angle as the zero reference.
calibrateRaw(s) ==
  [s EXCEPT !.calibrationOffset = s.rawGamma,
            !.dotPx = DOT_CENTER, !.dotPy = DOT_CENTER,
            !.dotVx = 0, !.dotVy = 0]

\* calibrate()
calibrate(s) ==
  [s EXCEPT !.calibrationOffset = s.smoothedGamma,
            !.dotPx = DOT_CENTER, !.dotPy = DOT_CENTER,
            !.dotVx = 0, !.dotVy = 0]

\* -------------------------------------------------------------- render loop
\* requestAnimationFrame: the handle of the new request, one more than the
\* last handle issued (handles start at 1, so a handle is never falsy).
newFrameId(pl) == pl.lastHandle + 1

\* FPS tracking that leaves the current tick out of the rate.
fpsStepBefore(s, t) ==
  LET n == s.frameCount + 1
      elapsed == t - s.lastFrameTime
  IN IF elapsed >= FPS_SAMPLE_INTERVAL_MS
       THEN [s EXCEPT !.currentFps = fpsOf(s.frameCount, elapsed),
                      !.frameCount = 0, !.lastFrameTime = t]
       ELSE [s EXCEPT !.frameCount = n]

\* FPS tracking of one tick at time t.
fpsStep(s, t) ==
  LET n == s.frameCount + 1
      elapsed == t - s.lastFrameTime
  IN IF elapsed >= FPS_SAMPLE_INTERVAL_MS
       THEN [s EXCEPT !.currentFps = fpsOf(n, elapsed),
                      !.frameCount = 0, !.lastFrameTime = t]
       ELSE [s EXCEPT !.frameCount = n]

\* A rotation that follows the device instead of countering it.
rotationKept(corrected) == corrected

\* The rotation published for a corrected angle.
rotationOf(corrected) == -corrected

\* A classification with exclusive upper bounds.
classifyStrict(absTilt) ==
  IF absTilt < LEVEL_THRESHOLD_DEG
    THEN [horizon |-> "level", badge |-> "level", text |-> "LEVEL"]
    ELSE IF absTilt < TILTED_THRESHOLD_DEG
      THEN [horizon |-> "", badge |-> "tilted", text |-> "TILTED"]
      ELSE [horizon |-> "tilted", badge |-> "very-tilted", text |-> "TILTED"]

\* Horizon line class, badge class and badge text for |corrected|.
classify(absTilt) ==
  IF absTilt <= LEVEL_THRESHOLD_DEG
    THEN [horizon |-> "level", badge |-> "level", text |-> "LEVEL"]
    ELSE IF absTilt <= TILTED_THRESHOLD_DEG
      THEN [horizon |-> "", badge |-> "tilted", text |-> "TILTED"]
      ELSE [horizon |-> "tilted", badge |-> "very-tilted", text |-> "TILTED"]

\* A dot axis without walls.
dotAxisUnclamped(p, v, acc) ==
  [p |-> p + RoundDiv(v + acc, 2), v |-> v + acc]

\* A dot axis that is clamped at the wall but keeps its velocity.
dotAxisKeepsSpeed(p, v, acc) ==
  LET v1 == v + acc
      p1 == p + RoundDiv(v1, 2)
  IN [p |-> Max(0, Min(DOT_MAX, p1)), v |-> v1]

\* One axis of the bubble level dot: velocity v gains acc, position p moves
\* by half the velocity, and a position outside [0, 98] is clamped with the
\* velocity zeroed.
dotAxis(p, v, acc) ==
  LET v1 == v + acc
      p1 == p + RoundDiv(v1, 2)
  IN IF p1 > DOT_MAX \/ p1 < 0
       THEN [p |-> Max(0, Min(DOT_MAX, p1)), v |-> 0]
       ELSE [p |-> p1, v |-> v1]

\* Dot physics driven by the corrected angle instead of the raw one.
dotStepCorrected(s) ==
  LET x == dotAxis(s.dotPx, s.dotVx,
                   RoundDiv((s.smoothedGamma - s.calibrationOffset) * 2, 60))
      y == dotAxis(s.dotPy, s.dotVy, RoundDiv(s.rawBeta, 60))
  IN [s EXCEPT !.dotPx = x.p, !.dotVx = x.v, !.dotPy = y.p, !.dotVy = y.v]

\* The bubble level dot physics of one tick.
dotStep(s) ==
  LET x == dotAxis(s.dotPx, s.dotVx, RoundDiv(s.rawGamma * 2, 60))
      y == dotAxis(s.dotPy, s.dotVy, RoundDiv(s.rawBeta, 60))
  IN [s EXCEPT !.dotPx = x.p, !.dotVx = x.v, !.dotPy = y.p, !.dotVy = y.v]

\* tick(now): one pass of the render loop at time t.
tick(w, t) ==
  LET id == newFrameId(w.pl)
      s0 == [w.st EXCEPT !.animFrameId = id]
      s1 == fpsStep(s0, t)
      sm == applySmoothing(s1, s1.rawGamma)
      s2 == sm.st
      smoothed == sm.ret
      corrected == smoothed - s2.calibrationOffset
      rotation == rotationOf(corrected)
      cls == classify(Abs(corrected))
      s3 == dotStep(s2)
      d1 == [w.dom EXCEPT
               !.rotation = rotation,
               !.canvasRotation = IF s2.isRecording THEN rotation ELSE @,
               !.tiltValue = toFixed1(corrected),
               !.horizonClass = cls.horizon,
               !.badgeClass = cls.badge,
               !.badgeText = cls.text,
               !.dotLeft = s3.dotPx,
               !.dotTop = s3.dotPy]
      d2 == IF d1.debugHidden THEN d1
            ELSE [d1 EXCEPT !.fpsDisplay = s3.currentFps,
                            !.rawText = toFixed1(s3.rawGamma),
                            !.smoothText = toFixed1(smoothed)]
  IN [w EXCEPT !.st = s3, !.dom = d2,
               !.pl.raf = @ \cup {id}, !.pl.lastHandle = id]

\* A render loop start that does not look at animFrameId.
startRenderLoopUnguarded(w) ==
  tick([w EXCEPT !.st.lastFrameTime = w.pl.now, !.st.frameCount = 0],
       w.pl.now)

\* startRenderLoop(): nothing when a frame is requested, else the first tick.
startRenderLoop(w) ==
  IF w.st.animFrameId # 0 THEN w
  ELSE tick([w EXCEPT !.st.lastFrameTime = w.pl.now, !.st.frameCount = 0],
            w.pl.now)

\* onMotionReady(sensorType)
onMotionReady(w, type) ==
  LET w1 == [w EXCEPT !.st.sensorType = type,
                      !.st.motionEnabled = TRUE,
                      !.dom.btnMotionDisabled = TRUE,
                      !.dom.btnCalibrateDisabled = FALSE]
  IN hideError(startRenderLoop(w1))

\* ------------------------------------------------------------------- camera
\* startCamera() up to its first await: getUserMedia is pending.
startCamera(w) ==
  [w EXCEPT !.cl.camPc = "gum", !.cl.camCalls = @ + 1]

\* getUserMedia resolved with a stream of n tracks: up to the await of play().
gotStream(w, n) ==
  LET id == w.cl.camCalls
  IN [w EXCEPT !.st.cameraStream = id,
               !.pl.tracks[id] = 1..n,
               !.cl.camPc = "play"]

\* play() resolved: the rest of the try block.
playing(w) ==
  hideError([w EXCEPT !.dom.btnCameraDisabled = TRUE,
                      !.dom.btnMotionDisabled = FALSE,
                      !.dom.btnRecordDisabled = FALSE,
                      !.cl.camPc = "idle"])

\* startCamera() where navigator.mediaDevices.getUserMedia is missing.
cameraUnsupported(w) == showError(w, "Camera API is not supported")

\* A catch block that asks for the camera again by itself.
cameraFailedRetrying(w, name) ==
  LET msg == IF name = "NotAllowedError" THEN "Camera permission denied"
             ELSE IF name = "NotFoundError" THEN "No camera found"
             ELSE "Camera error"
  IN showError([w EXCEPT !.cl.camPc = "gum",
                         !.cl.camCalls = Min(@ + 1, MaxCameraCalls)], msg)

\* The catch block of startCamera for an error of the given name.
cameraFailed(w, name) ==
  LET msg == IF name = "NotAllowedError" THEN "Camera permission denied"
             ELSE IF name = "NotFoundError" THEN "No camera found"
             ELSE "Camera error"
  IN showError([w EXCEPT !.cl.camPc = "idle"], msg)

ErrorNames == {"NotAllowedError", "NotFoundError", "AbortError"}

\* ----------------------------------------------------------- motion sensors
\* The promise of a try... function of call c settles with value v, if it is
\* still pending at position `at`; settling a settled promise does nothing.
settle(w, c, at, v) ==
  IF w.cl.pc[c] = at
    THEN [w EXCEPT !.cl.pc[c] = IF at = "genWait"
                                  THEN (IF v THEN "genTrue" ELSE "genFalse")
                                  ELSE (IF v THEN "doeTrue" ELSE "doeFalse")]
    ELSE w

\* enableMotion() up to its first suspension, in tryGenericSensor: without
\* the capability it returns false, else it awaits the permission queries.
enableMotion(w, c) ==
  IF ~w.pl.hasAOS
    THEN [w EXCEPT !.cl.pc[c] = "genFalse"]
    ELSE [w EXCEPT !.cl.pc[c] = "permQuery"]

\* The executor of tryGenericSensor's promise.  how = "ctorThrows": the
\* constructor throws; "startThrows": start() throws, after the listeners and
\* the timeout were set; "ok": the sensor is started.
startGenericSensor(w, c, how) ==
  IF how = "ctorThrows"
    THEN [w EXCEPT !.cl.pc[c] = "genFalse"]
    ELSE [w EXCEPT !.pl.timers = Append(@, <<"gen", c>>),
                   !.pl.sensor[c] = IF how = "ok" THEN "active" ELSE "idle",
                   !.cl.pc[c] = IF how = "ok" THEN "genWait" ELSE "genFalse"]

\* tryGenericSensor after the permission queries settled: r = "denied" when
\* one of the three is denied, "throws" when the query is rejected.
permissionsQueried(w, c, r, how) ==
  IF r = "denied"
    THEN [w EXCEPT !.cl.pc[c] = "genFalse"]
    ELSE startGenericSensor(w, c, how)

\* A 'reading' listener that stores the angles without looking at them.
onReadingUnchecked(w, c, qnull, gamma, beta) ==
  LET w1 == IF qnull THEN w
            ELSE [w EXCEPT !.st.rawGamma = gamma,
                           !.st.hasReceivedData = TRUE,
                           !.st.rawBeta = beta]
  IN IF ~w1.cl.genResolved[c]
       THEN settle([w1 EXCEPT !.cl.genResolved[c] = TRUE,
                              !.st.sensorInstance = c],
                   c, "genWait", TRUE)
       ELSE w1

\* The 'reading' listener of call c's sensor.  qnull: sensor.quaternion is
\* null; gamma and beta are the angles the quaternion converts to (atan2 and
\* asin are not computed here: any angle, or NaN, may come out).
onReading(w, c, qnull, gamma, beta) ==
  LET w1 == IF qnull THEN w
            ELSE [w EXCEPT
                    !.st.rawGamma = IF IsNaN(gamma) THEN @ ELSE gamma,
                    !.st.hasReceivedData = IF IsNaN(gamma) THEN @ ELSE TRUE,
                    !.st.rawBeta = IF IsNaN(beta) THEN @ ELSE beta]
  IN IF ~w1.cl.genResolved[c]
       THEN settle([w1 EXCEPT !.cl.genResolved[c] = TRUE,
                              !.st.sensorInstance = c],
                   c, "genWait", TRUE)
       ELSE w1

\* The 'error' listener of call c's sensor (the platform has deactivated it).
onSensorError(w, c) ==
  LET w1 == [w EXCEPT !.pl.sensor[c] = "idle"]
  IN IF ~w1.cl.genResolved[c]
       THEN settle([w1 EXCEPT !.cl.genResolved[c] = TRUE], c, "genWait", FALSE)
       ELSE w1

\* A timeout that does not look at `resolved`.
onGenericTimeoutUnguarded(w, c) ==
  settle([w EXCEPT !.cl.genResolved[c] = TRUE, !.pl.sensor[c] = "idle"],
         c, "genWait", FALSE)

\* A timeout that stops the sensor and resolves nothing.
onGenericTimeoutSilent(w, c) == [w EXCEPT !.pl.sensor[c] = "idle"]

\* The 2 s timeout of tryGenericSensor.
onGenericTimeout(w, c) ==
  IF ~w.cl.genResolved[c]
    THEN settle([w EXCEPT !.cl.genResolved[c] = TRUE,
                          !.pl.sensor[c] = "idle"],
                c, "genWait", FALSE)
    ELSE w

\* The executor of tryDeviceOrientation's promise: both listeners, the
\* handler reference and the timeout.
listenDeviceOrientation(w, c) ==
  [w EXCEPT !.pl.doeListener[c] = TRUE,
            !.pl.absListener[c] = TRUE,
            !.st.doeHandler = c,
            !.pl.timers = Append(@, <<"doe", c>>),
            !.cl.pc[c] = "doeWait"]

\* tryDeviceOrientation() up to its first suspension.
tryDeviceOrientation(w, c) ==
  IF ~w.pl.hasDOE
    THEN [w EXCEPT !.cl.pc[c] = "doeFalse"]
    ELSE IF w.pl.hasRequestPermission
      THEN [w EXCEPT !.cl.pc[c] = "doePerm"]
      ELSE listenDeviceOrientation(w, c)

\* A permission step that attaches the listeners whatever the answer.
permissionRequestedAttaching(w, c, r) ==
  IF r = "granted"
    THEN listenDeviceOrientation(w, c)
    ELSE [listenDeviceOrientation(w, c) EXCEPT !.cl.pc[c] = "doeFalse"]

\* tryDeviceOrientation after requestPermission() settled.
permissionRequested(w, c, r) ==
  IF r = "granted"
    THEN listenDeviceOrientation(w, c)
    ELSE [w EXCEPT !.cl.pc[c] = "doeFalse"]

\* A 'deviceorientation' handler that waits for a fourth event.
handlerFourth(w, c, gamma, beta) ==
  LET n == IF w.cl.attempts[c] < MaxAttempts THEN w.cl.attempts[c] + 1
           ELSE w.cl.attempts[c]
      okG == gamma # Null /\ ~IsNaN(gamma)
      okB == beta # Null /\ ~IsNaN(beta)
      w1 == [w EXCEPT
               !.cl.attempts[c] = n,
               !.st.rawGamma = IF okG THEN gamma ELSE @,
               !.st.hasReceivedData =
                  IF okG /\ (gamma # 0 \/ n > 5) THEN TRUE ELSE @,
               !.st.rawBeta = IF okB THEN beta ELSE @]
  IN IF ~w1.cl.doeResolved[c] /\ n >= 4
       THEN settle([w1 EXCEPT !.cl.doeResolved[c] = TRUE], c, "doeWait", TRUE)
       ELSE w1

\* A 'deviceorientation' handler that also writes the filter state.
handlerFiltering(w, c, gamma, beta) ==
  LET n == IF w.cl.attempts[c] < MaxAttempts THEN w.cl.attempts[c] + 1
           ELSE w.cl.attempts[c]
      okG == gamma # Null /\ ~IsNaN(gamma)
      okB == beta # Null /\ ~IsNaN(beta)
      w1 == [w EXCEPT
               !.cl.attempts[c] = n,
               !.st.rawGamma = IF okG THEN gamma ELSE @,
               !.st.smoothedGamma = IF okG THEN gamma ELSE @,
               !.st.hasReceivedData =
                  IF okG /\ (gamma # 0 \/ n > 5) THEN TRUE ELSE @,
               !.st.rawBeta = IF okB THEN beta ELSE @]
  IN IF ~w1.cl.doeResolved[c] /\ n >= 3
       THEN settle([w1 EXCEPT !.cl.doeResolved[c] = TRUE], c, "doeWait", TRUE)
       ELSE w1

\* handler(event) of call c, for a 'deviceorientation' event.
handler(w, c, gamma, beta) ==
  LET n == IF w.cl.attempts[c] < MaxAttempts THEN w.cl.attempts[c] + 1
           ELSE w.cl.attempts[c]
      okG == gamma # Null /\ ~IsNaN(gamma)
      okB == beta # Null /\ ~IsNaN(beta)
      w1 == [w EXCEPT
               !.cl.attempts[c] = n,
               !.st.rawGamma = IF okG THEN gamma ELSE @,
               !.st.hasReceivedData =
                  IF okG /\ (gamma # 0 \/ n > 5) THEN TRUE ELSE @,
               !.st.rawBeta = IF okB THEN beta ELSE @]
  IN IF ~w1.cl.doeResolved[c] /\ n >= 3
       THEN settle([w1 EXCEPT !.cl.doeResolved[c] = TRUE], c, "doeWait", TRUE)
       ELSE w1

\* The anonymous 'deviceorientationabsolute' listener.
absoluteListener(w, gamma, beta) ==
  LET okG == gamma # Null /\ ~IsNaN(gamma)
      okB == beta # Null /\ ~IsNaN(beta)
  IN [w EXCEPT !.st.rawGamma = IF okG THEN gamma ELSE @,
               !.st.hasReceivedData = IF okG THEN TRUE ELSE @,
               !.st.rawBeta = IF okB THEN beta ELSE @]

\* The 2 s timeout of tryDeviceOrientation.
onDeviceOrientationTimeout(w, c) ==
  IF ~w.cl.doeResolved[c]
    THEN LET w1 == [w EXCEPT !.cl.doeResolved[c] = TRUE]
         IN IF w1.cl.attempts[c] > 0
              THEN settle(w1, c, "doeWait", TRUE)
              ELSE settle([w1 EXCEPT !.pl.doeListener[c] = FALSE],
                          c, "doeWait", FALSE)
    ELSE w

MotionUnavailable == "Motion sensors unavailable"

\* A continuation that reports the failure of the generic sensor at once.
resumeEnableMotionLoud(w, c) ==
  CASE w.cl.pc[c] = "genTrue" ->
         onMotionReady([w EXCEPT !.cl.pc[c] = "ready"], "generic-sensor")
    [] w.cl.pc[c] = "genFalse" ->
         showError(tryDeviceOrientation(w, c), MotionUnavailable)
    [] w.cl.pc[c] = "doeTrue" ->
         onMotionReady([w EXCEPT !.cl.pc[c] = "ready"], "device-orientation")
    [] w.cl.pc[c] = "doeFalse" ->
         showError([w EXCEPT !.cl.pc[c] = "failed"], MotionUnavailable)

\* enableMotion() resumed after an await of call c.
resumeEnableMotion(w, c) ==
  CASE w.cl.pc[c] = "genTrue" ->
         onMotionReady([w EXCEPT !.cl.pc[c] = "ready"], "generic-sensor")
    [] w.cl.pc[c] = "genFalse" -> tryDeviceOrientation(w, c)
    [] w.cl.pc[c] = "doeTrue" ->
         onMotionReady([w EXCEPT !.cl.pc[c] = "ready"], "device-orientation")
    [] w.cl.pc[c] = "doeFalse" ->
         showError([w EXCEPT !.cl.pc[c] = "failed"], MotionUnavailable)

\* ---------------------------------------------------------------- recording
\* startRecording(): ok is whether the MediaRecorder could be created.
startRecording(w, ok) ==
  IF ~ok
    THEN showError(w, "Recording is not supported")
    ELSE [w EXCEPT !.st.mediaRecorder = 1,
                   !.pl.recorder = "recording",
                   !.st.isRecording = TRUE,
                   !.st.recordTimerInterval = TRUE]

\* stopRecording(): throws is whether mediaRecorder.stop() throws, which
\* ends the function there (threw).
stopRecording(w, throws) ==
  IF w.st.mediaRecorder # 0 /\ w.st.isRecording /\ throws
    THEN [w |-> w, threw |-> TRUE]
    ELSE LET w1 == IF w.st.mediaRecorder # 0 /\ w.st.isRecording
                     THEN [w EXCEPT !.pl.recorder = "inactive",
                                    !.st.isRecording = FALSE]
                     ELSE w
         IN [w |-> [w1 EXCEPT !.st.recordTimerInterval = FALSE],
             threw |-> FALSE]

\* ------------------------------------------------------------------ cleanup
\* The animation frame step of destroy().
destroyFrame(w) ==
  IF w.st.animFrameId # 0
    THEN [w EXCEPT !.pl.raf = @ \ {w.st.animFrameId}, !.st.animFrameId = 0]
    ELSE w

\* The sensor step of destroy(): a throwing stop() is ignored.
destroySensor(w, throws) ==
  IF w.st.sensorInstance # 0
    THEN [w EXCEPT !.pl.sensor[w.st.sensorInstance] =
                      IF throws THEN @ ELSE "idle",
                   !.st.sensorInstance = 0]
    ELSE w

\* The listener step of destroy().
destroyListener(w) ==
  IF w.st.doeHandler # 0
    THEN [w EXCEPT !.pl.doeListener[w.st.doeHandler] = FALSE]
    ELSE w

\* The camera step of destroy(): bad is the first track whose stop() throws
\* (0: none does), which ends forEach and the function there (threw).
destroyCamera(w, bad) ==
  IF w.st.cameraStream = 0 THEN [w |-> w, threw |-> FALSE]
  ELSE LET id == w.st.cameraStream
           live == w.pl.tracks[id]
       IN IF bad \in live
            THEN [w |-> [w EXCEPT !.pl.tracks[id] = {k \in live : k >= bad}],
                  threw |-> TRUE]
            ELSE [w |-> [w EXCEPT !.pl.tracks[id] = {},
                                  !.st.cameraStream = 0],
                  threw |-> FALSE]

\* destroy(): throwsRec, throwsSensor and bad say which release steps throw.
destroy(w, throwsRec, throwsSensor, bad) ==
  LET r == IF w.st.isRecording THEN stopRecording(w, throwsRec)
           ELSE [w |-> w, threw |-> FALSE]
  IN IF r.threw THEN r
     ELSE destroyCamera(
            destroyListener(destroySensor(destroyFrame(r.w), throwsSensor)),
            bad)

\* ------------------------------------------------------------------ actions
Settled == {"genTrue", "genFalse", "doeTrue", "doeFalse"}

\* History.  destroyed: destroy() has returned; destroyedEnabled: it has
\* returned with motion enabled; whileActive: the enableMotion calls made
\* while a sensor session was active.
InitHist ==
  [destroyed |-> FALSE, destroyedEnabled |-> FALSE, whileActive |-> {}]

\* A sensor is started or an orientation handler is attached.
SessionActive ==
  \E c \in Calls : plat.sensor[c] = "active" \/ plat.doeListener[c]

\* No continuation of enableMotion is waiting to run.
NoMicrotask == \A c \in Calls : calls.pc[c] \notin Settled

\* The angles the sensors deliver while the session is followed: 0 and
\* 0.0001 degrees, which the filter and the indicator round away, so that
\* the raw values change and the picture does not.
SessionGammas == {0, 1}
SessionBetas == {1}

\* Click on the camera button, for at most `limit` startCamera calls.
ClickCamera(limit) ==
  /\ NoMicrotask
  /\ ~dom.btnCameraDisabled
  /\ calls.camPc = "idle"
  /\ calls.camCalls < limit
  /\ Becomes(startCamera(World))
  /\ UNCHANGED hist

GetUserMediaResolved(n) ==
  /\ NoMicrotask
  /\ calls.camPc = "gum"
  /\ Becomes(gotStream(World, n))
  /\ UNCHANGED hist

GetUserMediaRejected(name) ==
  /\ NoMicrotask
  /\ calls.camPc = "gum"
  /\ Becomes(cameraFailed(World, name))
  /\ UNCHANGED hist

PlayResolved ==
  /\ NoMicrotask
  /\ calls.camPc = "play"
  /\ Becomes(playing(World))
  /\ UNCHANGED hist

PlayRejected(name) ==
  /\ NoMicrotask
  /\ calls.camPc = "play"
  /\ Becomes(cameraFailed(World, name))
  /\ UNCHANGED hist

\* Click on the camera button of a browser without the camera API.
ClickCameraUnsupported ==
  /\ NoMicrotask
  /\ ~dom.btnCameraDisabled
  /\ calls.camPc = "idle"
  /\ calls.camCalls = 0
  /\ Becomes(cameraUnsupported(World))
  /\ UNCHANGED hist

\* Click on the motion button: the next enableMotion call, c, of at most
\* `limit` calls.
ClickMotion(c, limit) ==
  /\ NoMicrotask
  /\ ~dom.btnMotionDisabled
  /\ c <= limit
  /\ calls.pc[c] = "idle"
  /\ \A k \in Calls : k < c => calls.pc[k] # "idle"
  /\ Becomes(enableMotion(World, c))
  /\ hist' = [hist EXCEPT !.whileActive =
                IF SessionActive THEN @ \cup {c} ELSE @]

PermissionsQueried(c, r, how) ==
  /\ NoMicrotask
  /\ calls.pc[c] = "permQuery"
  /\ Becomes(permissionsQueried(World, c, r, how))
  /\ UNCHANGED hist

PermissionRequested(c, r) ==
  /\ NoMicrotask
  /\ calls.pc[c] = "doePerm"
  /\ Becomes(permissionRequested(World, c, r))
  /\ UNCHANGED hist

\* A 'reading' event of call c's sensor.
Reading(c, qnull, gamma, beta) ==
  /\ NoMicrotask
  /\ plat.sensor[c] = "active"
  /\ Becomes(onReading(World, c, qnull, gamma, beta))
  /\ UNCHANGED hist

\* An 'error' event of call c's sensor.
SensorError(c) ==
  /\ NoMicrotask
  /\ plat.sensor[c] = "active"
  /\ Becomes(onSensorError(World, c))
  /\ UNCHANGED hist

\* The oldest 2 s timer fires (all timers have the same delay).
Timeout ==
  /\ NoMicrotask
  /\ plat.timers # <<>>
  /\ LET t == Head(plat.timers)
         w == [World EXCEPT !.pl.timers = Tail(@)]
     IN Becomes(IF t[1] = "gen" THEN onGenericTimeout(w, t[2])
                ELSE onDeviceOrientationTimeout(w, t[2]))
  /\ UNCHANGED hist

\* A 'deviceorientation' event, as call c's handler receives it.
DeviceOrientation(c, gamma, beta) ==
  /\ NoMicrotask
  /\ plat.doeListener[c]
  /\ Becomes(handler(World, c, gamma, beta))
  /\ UNCHANGED hist

\* A 'deviceorientationabsolute' event, as call c's listener receives it.
DeviceOrientationAbsolute(c, gamma, beta) ==
  /\ NoMicrotask
  /\ plat.absListener[c]
  /\ Becomes(absoluteListener(World, gamma, beta))
  /\ UNCHANGED hist

\* The continuation of call c after a settled await.
Resume(c) ==
  /\ calls.pc[c] \in Settled
  /\ Becomes(resumeEnableMotion(World, c))
  /\ UNCHANGED hist

\* The animation frame of request id arrives, d ms after the last one.
Frame(id, d) ==
  /\ NoMicrotask
  /\ id \in plat.raf
  /\ plat.now + d <= MaxFrames * FPS_SAMPLE_INTERVAL_MS
  /\ Becomes(tick([World EXCEPT !.pl.raf = @ \ {id}, !.pl.now = @ + d],
                  plat.now + d))
  /\ UNCHANGED hist

\* Click on the calibrate button.
Calibrate ==
  /\ NoMicrotask
  /\ ~dom.btnCalibrateDisabled
  /\ Becomes([World EXCEPT !.st = calibrate(@)])
  /\ UNCHANGED hist

\* The smoothing checkbox changes to `checked`.
ToggleSmoothing(checked) ==
  /\ NoMicrotask
  /\ state.smoothingEnabled # checked
  /\ Becomes([World EXCEPT !.st.smoothingEnabled = checked])
  /\ UNCHANGED hist

\* The debug checkbox changes to `checked`.
ToggleDebug(checked) ==
  /\ NoMicrotask
  /\ dom.debugHidden = checked
  /\ Becomes([World EXCEPT !.dom.debugHidden = ~checked])
  /\ UNCHANGED hist

\* Click on the record button; an exception of stop() leaves the handler.
ClickRecord(ok, throws) ==
  /\ NoMicrotask
  /\ ~dom.btnRecordDisabled
  /\ Becomes(IF state.isRecording THEN stopRecording(World, throws).w
             ELSE startRecording(World, ok))
  /\ UNCHANGED hist

\* GyroCam.destroy() is called.
Destroy(throwsRec, throwsSensor, bad) ==
  /\ NoMicrotask
  /\ LET r == destroy(World, throwsRec, throwsSensor, bad)
     IN /\ Becomes(r.w)
        /\ hist' = [hist EXCEPT
                      !.destroyed = @ \/ ~r.threw,
                      !.destroyedEnabled =
                         @ \/ (~r.threw /\ state.motionEnabled)]

\* ----------------------------------------------------------- specification
Init ==
  /\ state = InitState
  /\ dom = InitDom
  /\ calls = InitCalls
  /\ \E aos \in BOOLEAN, doe \in BOOLEAN, req \in BOOLEAN :
       /\ req => doe
       /\ plat = InitPlat(aos, doe, req)
  /\ hist = InitHist

CameraStep(limit, tracks) ==
  \/ ClickCamera(limit)
  \/ \E n \in tracks : GetUserMediaResolved(n)
  \/ \E name \in ErrorNames : GetUserMediaRejected(name)
  \/ PlayResolved
  \/ \E name \in ErrorNames : PlayRejected(name)

MotionStep(limit, gammas, betas) ==
  \/ \E c \in Calls : ClickMotion(c, limit)
  \/ \E c \in Calls, r \in {"granted", "denied", "throws"},
        how \in {"ok", "ctorThrows", "startThrows"} : PermissionsQueried(c, r, how)
  \/ \E c \in Calls, r \in {"granted", "denied", "throws"} : PermissionRequested(c, r)
  \/ \E c \in Calls, qnull \in BOOLEAN, g \in gammas \cup {NaN}, b \in betas \cup {NaN} :
        Reading(c, qnull, g, b)
  \/ \E c \in Calls : SensorError(c)
  \/ Timeout
  \/ \E c \in Calls, g \in gammas \cup {NaN, Null}, b \in betas \cup {NaN, Null} :
        DeviceOrientation(c, g, b)
  \/ \E c \in Calls, g \in gammas \cup {NaN, Null}, b \in betas \cup {NaN, Null} :
        DeviceOrientationAbsolute(c, g, b)
  \/ \E c \in Calls : Resume(c)

\* The life of one sensor session: the camera, one enableMotion call, the
\* render loop, calibration and a teardown in which nothing throws.
Next ==
  \/ CameraStep(1, {1})
  \/ MotionStep(1, SessionGammas, SessionBetas)
  \/ Calibrate
  \/ \E id \in plat.raf : Frame(id, FPS_SAMPLE_INTERVAL_MS)
  \/ Destroy(FALSE, FALSE, 0)

Spec == Init /\ [][Next]_vars

\* Teardown with a recording running and release steps that throw.
NextTeardown ==
  \/ CameraStep(1, 1..MaxTracks)
  \/ MotionStep(1, {1}, {})
  \/ \E ok \in BOOLEAN, throws \in BOOLEAN : ClickRecord(ok, throws)
  \/ \E id \in plat.raf : Frame(id, FPS_SAMPLE_INTERVAL_MS)
  \/ \E tr \in BOOLEAN, ts \in BOOLEAN, bad \in 0..MaxTracks : Destroy(tr, ts, bad)

SpecTeardown == Init /\ [][NextTeardown]_vars

\* Overlapping and repeated enableMotion calls.
NextOverlap ==
  \/ CameraStep(1, {1})
  \/ MotionStep(MaxCalls, SessionGammas, {})

SpecOverlap == Init /\ [][NextOverlap]_vars

\* The render pipeline on its own.  It starts where a page without the
\* generic sensor stands once the camera plays, enableMotion has fallen back
\* to device orientation, three events of a flat device have arrived,
\* onMotionReady has run the first tick, three more events have arrived and
\* the 2 s timer has fired.
flat3(w) == handler(handler(handler(w, 1, 0, Null), 1, 0, Null), 1, 0, Null)

RenderStart ==
  LET w0 == [st |-> InitState, dom |-> InitDom, cl |-> InitCalls,
             pl |-> InitPlat(FALSE, TRUE, FALSE)]
      w1 == playing(gotStream(startCamera(w0), 1))
      w2 == resumeEnableMotion(enableMotion(w1, 1), 1)
      w3 == flat3(resumeEnableMotion(flat3(w2), 1))
  IN onDeviceOrientationTimeout([w3 EXCEPT !.pl.timers = Tail(@)], 1)

InitRender ==
  /\ state = RenderStart.st
  /\ dom = RenderStart.dom
  /\ calls = RenderStart.cl
  /\ plat = RenderStart.pl
  /\ hist = InitHist

\* The angles at and next to the two classification thresholds.
RenderGammas == {0, -15000, 15000, 15001, 100000, 100001}

NextRender ==
  \/ \E g \in RenderGammas \cup {NaN, Null} : DeviceOrientation(1, g, Null)
  \/ \E id \in plat.raf : Frame(id, FPS_SAMPLE_INTERVAL_MS)
  \/ Calibrate
  \/ \E b \in BOOLEAN : ToggleSmoothing(b)

SpecRender == InitRender /\ [][NextRender]_vars

\* The filter on a held input.  It starts where the render pipeline starts,
\* after the user has switched smoothing off, the device has reported the
\* angle s0, a frame has rendered it, the user has calibrated and switched
\* smoothing on again, and the device has reported the angle r: the filter
\* state and the calibration offset are s0 and the raw angle is r.  From
\* there only animation frames arrive, FrameMs apart.
FilterStart(s0, r) ==
  CHOOSE w4 \in
    { handler([w3 EXCEPT !.st.smoothingEnabled = TRUE], 1, r, Null) :
        w3 \in
          { [w2 EXCEPT !.st = calibrate(@)] :
              w2 \in
                { tick([w1 EXCEPT !.pl.raf = @ \ {w1.st.animFrameId}],
                       w1.pl.now) :
                    w1 \in { handler([RenderStart EXCEPT
                                         !.st.smoothingEnabled = FALSE],
                                      1, s0, Null) } } } } : TRUE

FilterStarts == {0, Deg(30), -Deg(45), 15001}
FilterRaws == {Deg(30), 0, -Deg(10), 15000}

InitFilter ==
  /\ \E s0 \in FilterStarts, r \in FilterRaws :
       /\ state = FilterStart(s0, r).st
       /\ dom = FilterStart(s0, r).dom
       /\ calls = FilterStart(s0, r).cl
       /\ plat = FilterStart(s0, r).pl
  /\ hist = InitHist

NextFilter == \E id \in plat.raf : Frame(id, FrameMs)

SpecFilter == InitFilter /\ [][NextFilter]_vars

\* The ticks that have run on the held input.
FilterBase == FilterStart(0, 0).pl.lastHandle
FilterTicks == plat.lastHandle - FilterBase

\* The fallback to device orientation.  The page has no generic sensor and the
\* camera plays; the user enables motion, and events of a device held at 5
\* degrees, of a flat device, or without angles arrive.  The promise
\* continuations of enableMotion run as the event loop runs them: one that is
\* ready is not left waiting forever.
FallbackStart(doe, req) ==
  playing(gotStream(startCamera(
    [st |-> InitState, dom |-> InitDom, cl |-> InitCalls,
     pl |-> InitPlat(FALSE, doe, req)]), 1))

InitFallback ==
  /\ \E doe \in BOOLEAN, req \in BOOLEAN :
       /\ req => doe
       /\ state = FallbackStart(doe, req).st
       /\ dom = FallbackStart(doe, req).dom
       /\ calls = FallbackStart(doe, req).cl
       /\ plat = FallbackStart(doe, req).pl
  /\ hist = InitHist

FallbackGammas == {Deg(5), 0, Null}

NextFallback ==
  \/ \E c \in Calls : ClickMotion(c, 1)
  \/ \E c \in Calls, r \in {"granted", "denied", "throws"} : PermissionRequested(c, r)
  \/ Timeout
  \/ \E c \in Calls, g \in FallbackGammas : DeviceOrientation(c, g, Null)
  \/ \E c \in Calls, g \in FallbackGammas : DeviceOrientationAbsolute(c, g, Null)
  \/ \E c \in Calls : Resume(c)

SpecFallback ==
  InitFallback /\ [][NextFallback]_vars /\ WF_vars(\E c \in Calls : Resume(c))

\* The end-to-end scenario.  It starts where the render pipeline starts, with
\* smoothing enabled, no calibration and the device flat.  Frames arrive
\* FrameMs apart; once three ticks have rendered the flat device, the device
\* is tilted to 10 degrees before one of the next four ticks and held there.
\* Animation frames keep arriving while the clock runs.
NextScenario ==
  \/ \E id \in plat.raf : Frame(id, FrameMs)
  \/ /\ plat.lastHandle \in 3..6
     /\ state.rawGamma = 0
     /\ DeviceOrientation(1, Deg(10), Null)

SpecScenario ==
  InitRender /\ [][NextScenario]_vars
    /\ WF_vars(\E id \in plat.raf : Frame(id, FrameMs))

\* The indicator at the walls.  It starts where the render pipeline starts,
\* with the dot at rest in the centre.  The device is tipped on its side
\* and forward or backward (gamma +-90, beta +-180 degrees or none) and
\* held; once the dot lies against a wall the device may be laid flat again.
\* Frames arrive FrameMs apart.
IndicatorGammas == {Deg(90), -Deg(90)}
IndicatorBetas == {Deg(180), -Deg(180), Null}

AtWall == state.dotPx \in {0, DOT_MAX} \/ state.dotPy \in {0, DOT_MAX}

NextIndicator ==
  \/ \E id \in plat.raf : Frame(id, FrameMs)
  \/ /\ state.rawGamma = 0 /\ state.rawBeta = 0 /\ ~AtWall
     /\ \E g \in IndicatorGammas, b \in IndicatorBetas :
          DeviceOrientation(1, g, b)
  \/ /\ state.rawGamma # 0 /\ AtWall
     /\ DeviceOrientation(1, 0, 0)

SpecIndicator == InitRender /\ [][NextIndicator]_vars

\* The indicator at the walls, with calibration: as above, and the user may
\* calibrate once while the device is tipped and the dot rests against the
\* walls, which puts the dot back in the centre.
NextIndicatorCal ==
  \/ NextIndicator
  \/ /\ AtWall /\ state.dotVx = 0 /\ state.dotVy = 0
     /\ state.rawGamma # 0 /\ state.calibrationOffset = 0
     /\ Calibrate

SpecIndicatorCal == InitRender /\ [][NextIndicatorCal]_vars

\* Every control of the page.  The page has no generic sensor and the camera
\* plays; the motion button was clicked twice, and both enableMotion calls
\* have attached their orientation listeners and wait.  Events of a device
\* held at 5 degrees arrive, three for the handler of the first call and two
\* for the handler of the second; the timers fire, the calls continue, frames
\* arrive, and the user calibrates, switches smoothing, opens the debug
\* panel, starts and stops a recording, until the page is torn down.
ControlsStart ==
  LET w1 == resumeEnableMotion(enableMotion(FallbackStart(TRUE, FALSE), 1), 1)
  IN resumeEnableMotion(enableMotion(w1, 2), 2)

InitControls ==
  /\ state = ControlsStart.st
  /\ dom = ControlsStart.dom
  /\ calls = ControlsStart.cl
  /\ plat = ControlsStart.pl
  /\ hist = InitHist

NextControls ==
  \/ \E c \in Calls : calls.attempts[c] + c < 4 /\ DeviceOrientation(c, Deg(5), Null)
  \/ Timeout
  \/ \E c \in Calls : Resume(c)
  \/ \E id \in plat.raf : Frame(id, FPS_SAMPLE_INTERVAL_MS)
  \/ ~hist.destroyed /\ Calibrate
  \/ ~hist.destroyed /\ \E b \in BOOLEAN : ToggleSmoothing(b)
  \/ ~hist.destroyed /\ ToggleDebug(TRUE)
  \/ ~hist.destroyed /\ ClickRecord(TRUE, FALSE)
  \/ Destroy(FALSE, FALSE, 0)

SpecControls == InitControls /\ [][NextControls]_vars

\* The frame counter.  It starts where the render pipeline starts.  Frames
\* arrive FrameMs, 200 or 500 ms after the one before, so that a sample
\* interval ends after exactly 500 ms and after more; the device is tilted
\* once, to 5 degrees.
FpsGaps == {FrameMs, 200, FPS_SAMPLE_INTERVAL_MS}

NextFps ==
  \/ \E id \in plat.raf, d \in FpsGaps : Frame(id, d)
  \/ state.rawGamma = 0 /\ DeviceOrientation(1, Deg(5), Null)

SpecFps == InitRender /\ [][NextFps]_vars

\* The camera on its own: the user clicks the camera button, and again after
\* a failure; getUserMedia and play() succeed or fail with each kind of
\* error, or the browser has no camera API.
NextCamera ==
  \/ CameraStep(MaxCameraCalls, 1..MaxTracks)
  \/ ClickCameraUnsupported

SpecCamera == Init /\ [][NextCamera]_vars

\* One enableMotion call to its end.  The camera plays on a page with any
\* combination of the two sensor APIs; the user enables motion.  Readings,
\* sensor errors and orientation events of a flat device arrive, or do not,
\* while a path waits for them.  The platform settles the permission
\* promises, fires the timers that are due and runs the continuations that
\* are ready.
TerminateStart(aos, doe, req) ==
  playing(gotStream(startCamera(
    [st |-> InitState, dom |-> InitDom, cl |-> InitCalls,
     pl |-> InitPlat(aos, doe, req)]), 1))

InitTerminate ==
  /\ \E aos \in BOOLEAN, doe \in BOOLEAN, req \in BOOLEAN :
       /\ req => doe
       /\ \A w \in {TerminateStart(aos, doe, req)} :
            /\ state = w.st
            /\ dom = w.dom
            /\ calls = w.cl
            /\ plat = w.pl
  /\ hist = InitHist

PermissionsSettle ==
  \E c \in Calls, r \in {"granted", "denied", "throws"},
     how \in {"ok", "ctorThrows", "startThrows"} : PermissionsQueried(c, r, how)

RequestSettles ==
  \E c \in Calls, r \in {"granted", "denied", "throws"} :
     PermissionRequested(c, r)

Continue == \E c \in Calls : Resume(c)

NextTerminate ==
  \/ \E c \in Calls : ClickMotion(c, 1)
  \/ PermissionsSettle
  \/ RequestSettles
  \/ \E c \in Calls : calls.pc[c] = "genWait" /\ Reading(c, FALSE, 0, 0)
  \/ \E c \in Calls : calls.pc[c] = "genWait" /\ SensorError(c)
  \/ \E c \in Calls : calls.pc[c] = "doeWait" /\ DeviceOrientation(c, 0, Null)
  \/ Timeout
  \/ Continue

SpecTerminate ==
  /\ InitTerminate
  /\ [][NextTerminate]_vars
  /\ WF_vars(PermissionsSettle)
  /\ WF_vars(RequestSettles)
  /\ WF_vars(Timeout)
  /\ WF_vars(Continue)

\* ------------------------------------------------------------------- claims
\* A step in which tick ran: a new animation frame handle was stored.
TickRan ==
  state'.animFrameId # state.animFrameId /\ state'.animFrameId # 0

\* C1: on every render tick the rotation published to the video transform is
\* the negation of the corrected angle of that tick, which is
\* applySmoothing(rawGamma) - calibrationOffset on the values the tick reads.
C1_RotationInversion ==
  [][TickRan =>
       dom'.rotation =
         -(applySmoothing(state, state.rawGamma).ret - state.calibrationOffset)
    ]_vars

\* A tick has published the rotation of a nonzero corrected angle under a
\* nonzero calibration offset.
C1_Witness ==
  /\ state.calibrationOffset # 0
  /\ state.smoothedGamma - state.calibrationOffset = 15001
  /\ dom.rotation = -15001

\* C2: the badge a tick publishes depends on |corrected| of that tick alone:
\* up to and including 1.5 degrees LEVEL, above that and up to and including
\* 10 degrees TILTED with class tilted, above 10 degrees TILTED with class
\* very-tilted.
C2_Classification ==
  [][TickRan =>
       LET a == Abs(state'.smoothedGamma - state'.calibrationOffset)
       IN /\ a <= 15000 =>
               dom'.badgeClass = "level" /\ dom'.badgeText = "LEVEL"
          /\ (15000 < a /\ a <= 100000) =>
               dom'.badgeClass = "tilted" /\ dom'.badgeText = "TILTED"
          /\ 100000 < a =>
               dom'.badgeClass = "very-tilted" /\ dom'.badgeText = "TILTED"
    ]_vars

\* A tick has classified a corrected angle of exactly -1.5 degrees as LEVEL.
C2_Witness ==
  /\ state.smoothedGamma - state.calibrationOffset = -15000
  /\ dom.rotation = 15000
  /\ dom.tiltValue = -15
  /\ dom.badgeClass = "level"
  /\ dom.badgeText = "LEVEL"

\* The sensors that can still deliver a reading to a 'reading' listener, and
\* the calls with an orientation listener still attached.
GenericLive == {c \in Calls : plat.sensor[c] = "active"}
OrientationLive == {c \in Calls : plat.doeListener[c] \/ plat.absListener[c]}

\* C3: with motion enabled at most one sensor source can write the raw
\* angles, and it is the source sensorType names.
C3_Original ==
  state.motionEnabled =>
    /\ ~(GenericLive # {} /\ OrientationLive # {})
    /\ state.sensorType = "generic-sensor" => OrientationLive = {}
    /\ state.sensorType = "device-orientation" => GenericLive = {}

\* C4: an enableMotion call made while a sensor session is active is a
\* no-op: it creates no sensor, attaches no listener, sets no timer, and
\* never reaches onMotionReady.
C4_Original ==
  \A c \in hist.whileActive :
    /\ plat.sensor[c] = "none"
    /\ ~plat.doeListener[c]
    /\ ~plat.absListener[c]
    /\ \A i \in 1..Len(plat.timers) : plat.timers[i][2] # c
    /\ calls.pc[c] # "ready"

\* C5: once sensorType has left 'none' it keeps its value.
C5_Original ==
  [][state.sensorType # "none" => state'.sensorType = state.sensorType]_vars

\* C6: when both sensor paths of a call have failed, the error is shown and
\* the system is as it was: motion disabled, no sensor type, no render loop,
\* no sensor instance, and nothing the attempt installed is left.
C6_Original ==
  \A c \in Calls :
    calls.pc[c] = "failed" =>
      /\ dom.errorText = MotionUnavailable
      /\ ~dom.errorHidden
      /\ ~state.motionEnabled
      /\ state.sensorType = "none"
      /\ state.animFrameId = 0
      /\ plat.raf = {}
      /\ state.sensorInstance = 0
      /\ plat.sensor[c] # "active"
      /\ ~plat.doeListener[c]
      /\ ~plat.absListener[c]
      /\ state.doeHandler = 0

\* C7: whichever release steps throw, destroy() performs every other one,
\* and no exception leaves it.
C7_Original ==
  [][\A tr \in BOOLEAN, ts \in BOOLEAN, bad \in 0..MaxTracks :
       Destroy(tr, ts, bad) =>
         /\ ~destroy(World, tr, ts, bad).threw
         /\ state'.animFrameId = 0
         /\ state.animFrameId \notin plat'.raf
         /\ state'.sensorInstance = 0
         /\ (state.sensorInstance # 0 /\ ~ts) =>
               plat'.sensor[state.sensorInstance] = "idle"
         /\ state.doeHandler # 0 => ~plat'.doeListener[state.doeHandler]
         /\ state.cameraStream # 0 =>
               plat'.tracks[state.cameraStream] \subseteq {bad}
    ]_vars

\* C8: once destroy() has returned after a successful enablement, no sensor
\* event changes the raw angles or hasReceivedData, and the frame handle, the
\* sensor instance and the camera stream are null.
C8_Original ==
  [][hist.destroyedEnabled =>
       /\ state'.rawGamma = state.rawGamma
       /\ state'.rawBeta = state.rawBeta
       /\ state'.hasReceivedData = state.hasReceivedData
       /\ state.animFrameId = 0
       /\ state.sensorInstance = 0
       /\ state.cameraStream = 0
    ]_vars

\* C9: a frame is requested only with motion enabled; before destroy() a
\* tick leaves exactly one request, its own; after destroy() has returned no
\* tick runs.
C9_Original ==
  [][/\ plat'.raf # {} => state'.motionEnabled
     /\ (TickRan /\ ~hist.destroyed) => plat'.raf = {state'.animFrameId}
     /\ hist.destroyed => ~TickRan
    ]_vars

\* The values only the render loop and calibrate may change: the filter
\* state, the calibration offset, the indicator, the FPS counters and
\* everything published to the page.
Rendered ==
  <<state.smoothedGamma, state.calibrationOffset,
    state.dotPx, state.dotPy, state.dotVx, state.dotVy,
    state.frameCount, state.lastFrameTime, state.currentFps,
    dom.rotation, dom.canvasRotation, dom.tiltValue, dom.horizonClass,
    dom.badgeClass, dom.badgeText, dom.dotLeft, dom.dotTop,
    dom.fpsDisplay, dom.rawText, dom.smoothText>>

\* A step that is one sensor callback.
SensorCallback ==
  \/ \E c \in Calls, qnull \in BOOLEAN,
        g \in SessionGammas \cup {NaN}, b \in SessionBetas \cup {NaN} :
        Reading(c, qnull, g, b)
  \/ \E c \in Calls, g \in SessionGammas \cup {NaN, Null},
        b \in SessionBetas \cup {NaN, Null} :
        DeviceOrientation(c, g, b) \/ DeviceOrientationAbsolute(c, g, b)

\* C10: a sensor callback leaves the filter state, the calibration offset,
\* the indicator, the FPS counters and the published outputs alone; those
\* change only in a step where tick or calibrate ran; and a step where tick
\* ran leaves rawGamma and rawBeta alone.
C10_CallbacksOnlyStoreRaw ==
  [][/\ SensorCallback => Rendered' = Rendered
     /\ Rendered' # Rendered => TickRan \/ Calibrate
     /\ TickRan => state'.rawGamma = state.rawGamma
                   /\ state'.rawBeta = state.rawBeta
    ]_vars

\* With the render loop running and a frame rendered, the 'deviceorientation'
\* handler has run again after its promise resolved on the third event, and
\* has stored a raw angle.
C10_Witness ==
  \E c \in Calls :
    /\ calls.pc[c] = "ready"
    /\ calls.attempts[c] > 3
    /\ state.sensorType = "device-orientation"
    /\ state.animFrameId # 0
    /\ state.lastFrameTime = FPS_SAMPLE_INTERVAL_MS
    /\ state.rawGamma = 1

\* C11: with smoothing disabled, the applySmoothing(rawGamma) call of a tick
\* returns rawGamma itself and leaves smoothedGamma equal to it, whatever the
\* filter state was; the tick publishes that value.
C11_PassThrough ==
  [][(TickRan /\ ~state.smoothingEnabled) =>
       /\ applySmoothing(state, state.rawGamma).ret = state.rawGamma
       /\ state'.smoothedGamma = state.rawGamma
       /\ dom'.rotation = -(state.rawGamma - state.calibrationOffset)
    ]_vars

\* With smoothing disabled a tick has passed a raw angle of 10.0001 degrees
\* through to the filter state and to the published rotation.
C11_Witness ==
  /\ ~state.smoothingEnabled
  /\ state.rawGamma = 100001
  /\ state.smoothedGamma = 100001
  /\ dom.rotation = -(100001 - state.calibrationOffset)
  /\ dom.badgeClass = "very-tilted"

\* (1 - 0.12)^n in millionths, and x times p millionths.
RECURSIVE pow88(_)
pow88(n) ==
  IF n = 0 THEN 1000000
  ELSE CHOOSE v \in {RoundDiv(p * 88, 100) : p \in {pow88(n - 1)}} : TRUE

Scaled(x, p) ==
  RoundDiv((x \div 1000) * p, 1000) + RoundDiv((x % 1000) * p, 1000000)

\* The distance the law predicts after n ticks from s0 toward r.
Decayed(s0, r, n) == Scaled(Abs(s0 - r), pow88(n))

\* C12 as stated: on a constant input R from filter state S0 the distance
\* to R after N ticks is |S0 - R| * 0.88^N, and R = 30, S0 = 0, N = 10
\* gives 21.85 (to two decimals).
C12_Original ==
  \A d \in {Abs(state.smoothedGamma - state.rawGamma)},
     e \in {Decayed(state.calibrationOffset, state.rawGamma, FilterTicks)} :
    /\ d - e <= FilterTolerance
    /\ e - d <= FilterTolerance
    /\ (state.rawGamma = Deg(30) /\ state.calibrationOffset = 0
          /\ FilterTicks = 10) =>
         (state.smoothedGamma >= 218450 /\ state.smoothedGamma <= 218550)

\* C12, amended: the same law, every step being
\* smoothed + 0.12 * (raw - smoothed) and ending between the old value and
\* R, and R = 30, S0 = 0, N = 10 gives 21.645, not 21.85.
C12_GeometricDecay ==
  [][TickRan =>
       \A R \in {state.rawGamma}, s \in {state.smoothedGamma},
          t \in {state'.smoothedGamma}, N \in {FilterTicks'} :
         \A d \in {Abs(t - R)},
            e \in {Decayed(state.calibrationOffset, R, N)} :
           /\ state'.rawGamma = R
           /\ t = s + RoundDiv(12 * (R - s), 100)
           /\ d <= Abs(s - R)
           /\ (s <= R) => (t <= R)
           /\ (s >= R) => (t >= R)
           /\ d - e <= FilterTolerance
           /\ e - d <= FilterTolerance
           /\ (R = Deg(30) /\ state.calibrationOffset = 0 /\ N = 10) =>
                (t >= 216400 /\ t <= 216500)
    ]_vars

\* Ten ticks have filtered a held 30 degrees from filter state 0.
C12_Witness ==
  /\ state.rawGamma = Deg(30)
  /\ state.calibrationOffset = 0
  /\ FilterTicks = 10
  /\ state.smoothedGamma > Deg(21)
  /\ state.smoothedGamma < Deg(22)

\* C13 as stated: the tick that follows two calibrate() calls in succession
\* computes a corrected angle of 0.
C13_Original ==
  [][(TickRan /\ state = calibrate(calibrate(state))) =>
       /\ state'.smoothedGamma - state'.calibrationOffset = 0
       /\ dom'.rotation = 0
    ]_vars

\* C13, amended: a second calibrate() changes nothing, and right after it
\* smoothedGamma - calibrationOffset is 0; the tick that follows computes as
\* corrected angle what the filter moves in that tick, which is 0 when the
\* filter state already equals the raw angle.
C13_CalibrateTwice ==
  [][/\ calibrate(calibrate(state)) = calibrate(state)
     /\ calibrate(state).smoothedGamma - calibrate(state).calibrationOffset = 0
     /\ (TickRan /\ state = calibrate(calibrate(state))) =>
          /\ state'.smoothedGamma - state'.calibrationOffset =
               applySmoothing(state, state.rawGamma).ret - state.smoothedGamma
          /\ dom'.rotation = -(state'.smoothedGamma - state.smoothedGamma)
          /\ state.rawGamma = state.smoothedGamma => dom'.rotation = 0
    ]_vars

\* Calibrated at a filter state of 0.18 degrees on the way to a raw angle of
\* 1.5 degrees, the next tick has computed a corrected angle of 0.1584.
C13_Witness ==
  /\ state.smoothingEnabled
  /\ state.rawGamma = 15000
  /\ state.calibrationOffset = 1800
  /\ state.smoothedGamma = 3384
  /\ dom.rotation = -1584

\* C14: calibrate() stores the filter state as the offset, centres the
\* indicator with zero velocity, and leaves the raw angles, the filter state,
\* the smoothing switch and the sensor session as they are.
C14_CalibrateFrame ==
  [][Calibrate =>
       /\ state'.calibrationOffset = state.smoothedGamma
       /\ state'.dotPx = DOT_CENTER /\ state'.dotPy = DOT_CENTER
       /\ state'.dotVx = 0 /\ state'.dotVy = 0
       /\ state'.rawGamma = state.rawGamma
       /\ state'.rawBeta = state.rawBeta
       /\ state'.smoothedGamma = state.smoothedGamma
       /\ state'.smoothingEnabled = state.smoothingEnabled
       /\ state'.sensorType = state.sensorType
       /\ state'.motionEnabled = state.motionEnabled
       /\ state'.sensorInstance = state.sensorInstance
       /\ state'.doeHandler = state.doeHandler
       /\ state'.animFrameId = state.animFrameId
       /\ calls' = calls
       /\ plat' = plat
    ]_vars

\* calibrate() has run after a tick that filtered a raw angle of 10.0001
\* degrees to 1.2 and moved the indicator: the offset is the filter state,
\* neither the raw angle nor 0, and the indicator is centred again while
\* the page still shows where the tick had put it.
C14_Witness ==
  /\ state.rawGamma = 100001
  /\ state.smoothedGamma = 12000
  /\ state.calibrationOffset = 12000
  /\ state.dotPx = DOT_CENTER
  /\ state.dotVx = 0
  /\ dom.dotLeft # DOT_CENTER
  /\ dom.rotation = -12000

\* C15: without the generic sensor enableMotion goes on to the device
\* orientation source; once three 'deviceorientation' events have arrived
\* the attempt has resolved success; the continuation then sets sensorType
\* to 'device-orientation', enables motion and runs the first tick; and
\* three events lead to motion being enabled.
C15_Fallback ==
  /\ [](\A c \in Calls :
          (~plat.hasAOS /\ calls.attempts[c] >= 3) =>
             (calls.doeResolved[c] /\ calls.pc[c] \in {"doeTrue", "ready"}))
  /\ [][\A c \in Calls :
          /\ (~plat.hasAOS /\ calls.pc[c] = "idle" /\ calls'.pc[c] # "idle") =>
                calls'.pc[c] = "genFalse"
          /\ (calls.pc[c] = "genFalse" /\ calls'.pc[c] # "genFalse"
                /\ plat.hasDOE /\ ~plat.hasRequestPermission) =>
                (calls'.pc[c] = "doeWait" /\ plat'.doeListener[c])
          /\ (calls.pc[c] = "doeTrue" /\ calls'.pc[c] # "doeTrue") =>
                /\ state'.sensorType = "device-orientation"
                /\ state'.motionEnabled
                /\ TickRan
                /\ state'.animFrameId \in plat'.raf
       ]_vars
  /\ ((\E c \in Calls : ~plat.hasAOS /\ calls.attempts[c] >= 3)
        ~> (state.motionEnabled /\ state.sensorType = "device-orientation"))

\* Without the generic sensor, three 'deviceorientation' events of a device
\* held at 5 degrees have arrived before the 2 s timer fired, and motion is
\* enabled over device orientation with a frame requested.
C15_Witness ==
  /\ ~plat.hasAOS
  /\ calls.attempts[1] = 3
  /\ calls.pc[1] = "ready"
  /\ plat.timers = << <<"doe", 1>> >>
  /\ state.rawGamma = Deg(5)
  /\ state.sensorType = "device-orientation"
  /\ state.motionEnabled
  /\ state.animFrameId \in plat.raf

\* C16: the raw angles, the filter state and the calibration offset are
\* never NaN (nor null), whatever the sensor callbacks deliver; and from a
\* NaN filter state applySmoothing returns the raw angle and stores it.
C16_NoNaN ==
  /\ \A v \in {state.rawGamma, state.rawBeta, state.smoothedGamma,
                state.calibrationOffset} : ~IsNaN(v) /\ v # Null
  /\ \A r \in {applySmoothing([state EXCEPT !.smoothedGamma = NaN,
                                             !.smoothingEnabled = TRUE],
                               state.rawGamma)} :
       /\ r.ret = state.rawGamma
       /\ r.st.smoothedGamma = state.rawGamma

\* Over the generic sensor a reading with gamma 0.0001 and a NaN beta has
\* arrived: gamma is stored, the NaN is not, and a frame has been rendered
\* since the loop started.
C16_Witness ==
  /\ state.sensorType = "generic-sensor"
  /\ state.hasReceivedData
  /\ state.rawGamma = 1
  /\ state.rawBeta = 0
  /\ state.lastFrameTime = FPS_SAMPLE_INTERVAL_MS

\* C17: with raw 0, 0, 0 and then 10 degrees held, smoothing enabled and no
\* calibration, every tick leaves the filtered value (which is the corrected
\* value) no lower than before, strictly higher while it is not yet at 10
\* up to rounding, and never above 10; the rotation is its negation; the
\* badge is LEVEL up to 1.5 degrees and TILTED above, stays TILTED once it
\* is, and is never very-tilted; and held for 24 ticks or more, the filtered
\* value comes within half a degree of 10 and the rotation of -10.
C17_Scenario ==
  /\ [][TickRan =>
          /\ state'.calibrationOffset = 0
          /\ state'.smoothedGamma >= state.smoothedGamma
          /\ state'.smoothedGamma <= Deg(10)
          /\ (state.rawGamma = Deg(10)
                /\ Deg(10) - state.smoothedGamma > FilterTolerance) =>
                state'.smoothedGamma > state.smoothedGamma
          /\ dom'.rotation = -state'.smoothedGamma
          /\ dom'.badgeClass # "very-tilted"
          /\ state'.smoothedGamma <= LEVEL_THRESHOLD_DEG =>
                (dom'.badgeClass = "level" /\ dom'.badgeText = "LEVEL")
          /\ state'.smoothedGamma > LEVEL_THRESHOLD_DEG =>
                (dom'.badgeClass = "tilted" /\ dom'.badgeText = "TILTED")
          /\ dom.badgeClass = "tilted" => dom'.badgeClass = "tilted"
       ]_vars
  /\ ((state.rawGamma = Deg(10)
         /\ plat.now + 24 * FrameMs <= MaxFrames * FPS_SAMPLE_INTERVAL_MS)
        ~> (/\ Deg(10) - state.smoothedGamma <= Deg(1) \div 2
            /\ dom.rotation <= -(Deg(10) - Deg(1) \div 2)
            /\ dom.badgeClass = "tilted"))

\* Held at 10 degrees, the filter has come within half a degree of it, the
\* rotation is the negation of the filtered value and the badge is TILTED.
C17_Witness ==
  /\ state.rawGamma = Deg(10)
  /\ state.calibrationOffset = 0
  /\ state.smoothedGamma > Deg(10) - Deg(1) \div 2
  /\ state.smoothedGamma < Deg(10)
  /\ dom.rotation = -state.smoothedGamma
  /\ dom.badgeClass = "tilted"
  /\ dom.badgeText = "TILTED"

\* C18: when a tick's position update would take the dot beyond 98 or below
\* 0 on an axis, the tick leaves the position at that wall and the velocity
\* of that axis at 0; the dot is always within [0, 98]; and a dot lying at
\* 98 with no velocity stays at exactly 98 in a tick that reads rawGamma 0.
C18_BoundaryDamping ==
  [][TickRan =>
       \A vx \in {state.dotVx + RoundDiv(state.rawGamma * 2, 60)},
          vy \in {state.dotVy + RoundDiv(state.rawBeta, 60)} :
         \A px \in {state.dotPx + RoundDiv(vx, 2)},
            py \in {state.dotPy + RoundDiv(vy, 2)} :
           /\ px > DOT_MAX => (state'.dotPx = DOT_MAX /\ state'.dotVx = 0)
           /\ px < 0 => (state'.dotPx = 0 /\ state'.dotVx = 0)
           /\ py > DOT_MAX => (state'.dotPy = DOT_MAX /\ state'.dotVy = 0)
           /\ py < 0 => (state'.dotPy = 0 /\ state'.dotVy = 0)
           /\ state'.dotPx \in 0..DOT_MAX
           /\ state'.dotPy \in 0..DOT_MAX
           /\ (state.dotPx = DOT_MAX /\ state.dotVx = 0
                 /\ state.rawGamma = 0) => state'.dotPx = DOT_MAX
           /\ dom'.dotLeft = state'.dotPx
           /\ dom'.dotTop = state'.dotPy
    ]_vars

\* The dot was driven against the wall at 98 and the device laid flat; ticks
\* have run since (the filter has fallen below the 57 degrees it had reached
\* when the dot hit the wall), and the dot is still at exactly 98, at rest.
C18_Witness ==
  /\ state.rawGamma = 0
  /\ state.smoothedGamma > 0
  /\ state.smoothedGamma < Deg(50)
  /\ state.dotPx = DOT_MAX
  /\ state.dotVx = 0
  /\ dom.dotLeft = DOT_MAX

\* The 2 s timer of call c's generic sensor fires.
GenericTimeout(c) ==
  /\ plat.timers # <<>>
  /\ Head(plat.timers) = <<"gen", c>>
  /\ Timeout

\* A 'reading' event of call c's sensor, whatever it carries.
AnyReading(c) ==
  \E qnull \in BOOLEAN, g \in SessionGammas \cup {NaN},
     b \in SessionBetas \cup {NaN} : Reading(c, qnull, g, b)

\* C19: the start race of a generic sensor is entered once and is open
\* exactly while nothing has resolved it; the first outcome decides it - a
\* reading resolves success and records the sensor in sensorInstance, an
\* error resolves failure, the timeout resolves failure and stops the sensor
\* - and an outcome that arrives afterwards changes neither the result nor
\* sensorInstance, nor does a late timeout stop the sensor.
C19_StartRace ==
  /\ [](\A c \in Calls : calls.pc[c] = "genWait" => ~calls.genResolved[c])
  /\ [][\A c \in Calls :
          /\ calls.genResolved[c] => calls'.genResolved[c]
          /\ (calls.pc[c] # "genWait" /\ calls'.pc[c] = "genWait") =>
                calls.pc[c] = "permQuery"
          /\ (calls.pc[c] = "genWait" /\ AnyReading(c)) =>
                /\ calls'.pc[c] = "genTrue"
                /\ state'.sensorInstance = c
          /\ (calls.pc[c] = "genWait" /\ SensorError(c)) =>
                /\ calls'.pc[c] = "genFalse"
                /\ state'.sensorInstance = state.sensorInstance
          /\ (calls.pc[c] = "genWait" /\ GenericTimeout(c)) =>
                /\ calls'.pc[c] = "genFalse"
                /\ plat'.sensor[c] = "idle"
                /\ state'.sensorInstance = state.sensorInstance
          /\ (calls.genResolved[c]
                /\ (AnyReading(c) \/ SensorError(c) \/ GenericTimeout(c))) =>
                /\ calls'.pc = calls.pc
                /\ state'.sensorInstance = state.sensorInstance
                /\ state'.sensorType = state.sensorType
                /\ state'.motionEnabled = state.motionEnabled
          /\ (calls.genResolved[c] /\ GenericTimeout(c)) =>
                plat'.sensor[c] = plat.sensor[c]
       ]_vars

\* The first reading won the race and the 2 s timer has fired since: the
\* sensor is recorded, still running, and motion is enabled over it.
C19_Witness ==
  /\ calls.genResolved[1]
  /\ calls.pc[1] = "ready"
  /\ plat.timers = <<>>
  /\ plat.sensor[1] = "active"
  /\ state.sensorInstance = 1
  /\ state.sensorType = "generic-sensor"

\* C20 as stated: the device-orientation attempt resolves failure only if
\* no orientation event has arrived when the 2 s timer fires.  With call c
\* the only call ever made, hasReceivedData can only have been set by an
\* orientation event delivered to this attempt's listeners, so the attempt
\* must not resolve failure while it is set.
C20_Original ==
  [][\A c \in Calls :
        ( /\ calls.pc[c] = "doeWait"
          /\ calls'.pc[c] = "doeFalse"
          /\ \A d \in Calls \ {c} : calls.pc[d] = "idle" ) =>
          ~state.hasReceivedData
    ]_vars

\* C21 as stated: on the device-orientation path hasReceivedData becomes true
\* only with an event that carries a non-null nonzero gamma, or once a
\* handler has counted more than 5 events.  The event that sets the flag
\* also stores its gamma in rawGamma, so the step that sets it must leave
\* rawGamma nonzero or an attempts counter above 5.
C21_Original ==
  [][(~state.hasReceivedData /\ state'.hasReceivedData) =>
        \/ state'.rawGamma # 0
        \/ \E c \in Calls : calls'.attempts[c] > 5
    ]_vars

\* Where a call stands in the generic-sensor path, and in the
\* device-orientation path.
GenericPcs == {"permQuery", "genWait", "genTrue", "genFalse"}
OrientationPcs == {"doePerm", "doeWait", "doeTrue", "doeFalse"}

\* The error line as the page shows it.
ErrorShown == <<dom.errorHidden, dom.errorText>>

\* C22: within one enableMotion call the two strategies run in order.  The
\* device-orientation path is entered, and its listeners are attached, only
\* from a generic path that resolved failure; a generic path that resolved
\* success ends the call in onMotionReady without touching the listeners;
\* nothing the generic path does, its failure included, changes the error
\* line; and the one message of the call is shown by the step that follows
\* the failure of the device-orientation path, and by no other step of it.
C22_OrderedAttempt ==
  /\ [](\A c \in Calls :
          (plat.doeListener[c] \/ plat.absListener[c]) =>
             calls.pc[c] \in OrientationPcs \cup {"ready", "failed"})
  /\ [][\A c \in Calls :
          /\ (calls.pc[c] \notin OrientationPcs
                /\ calls'.pc[c] \in OrientationPcs) =>
                calls.pc[c] = "genFalse"
          /\ (~plat.absListener[c] /\ plat'.absListener[c]) =>
                calls.pc[c] \in {"genFalse", "doePerm"}
          /\ (~plat.doeListener[c] /\ plat'.doeListener[c]) =>
                calls.pc[c] \in {"genFalse", "doePerm"}
          /\ calls.pc[c] = "genTrue" =>
                /\ calls'.pc[c] = "ready"
                /\ plat'.doeListener = plat.doeListener
                /\ plat'.absListener = plat.absListener
                /\ state'.sensorType = "generic-sensor"
          /\ calls.pc[c] \in {"ready", "failed"} => calls'.pc[c] = calls.pc[c]
          /\ ( \/ calls.pc[c] \in {"permQuery", "genWait", "genFalse"}
               \/ calls.pc[c] = "idle" /\ calls'.pc[c] # "idle" ) =>
                ErrorShown' = ErrorShown
          /\ calls.pc[c] \in {"doePerm", "doeWait"} => ErrorShown' = ErrorShown
          /\ calls.pc[c] = "doeFalse" =>
                /\ calls'.pc[c] = "failed"
                /\ ErrorShown' = <<FALSE, MotionUnavailable>>
          /\ (calls.pc[c] # "failed" /\ calls'.pc[c] = "failed") =>
                calls.pc[c] = "doeFalse"
       ]_vars

\* Both paths have failed in turn: the generic sensor was started and gave
\* no reading, the orientation listeners were attached and no event came,
\* and the message is shown.
C22_Witness ==
  /\ plat.hasAOS
  /\ plat.sensor[1] = "idle"
  /\ plat.absListener[1]
  /\ calls.attempts[1] = 0
  /\ calls.pc[1] = "failed"
  /\ ErrorShown = <<FALSE, MotionUnavailable>>

\* What a sensor path can acquire: sensors, listeners and timers.
Acquired == <<plat.sensor, plat.doeListener, plat.absListener, plat.timers>>

\* C23: a path that permission denial aborts acquires nothing.  When the
\* permission queries of the generic path report 'denied' the path resolves
\* failure with no sensor constructed and no timer set, while a query that
\* throws lets the path go on to start its sensor; when requestPermission
\* answers anything but 'granted', or throws, the orientation path resolves
\* failure with no listener attached and no timer set.  Neither step changes
\* the state object, so rawGamma, rawBeta, sensorInstance and the handler
\* reference are as before.
C23_DenialAcquiresNothing ==
  [][\A c \in Calls :
        /\ (\E how \in {"ok", "ctorThrows", "startThrows"} :
               PermissionsQueried(c, "denied", how)) =>
              /\ calls'.pc[c] = "genFalse"
              /\ plat.sensor[c] = "none"
              /\ Acquired' = Acquired
              /\ state' = state
        /\ PermissionsQueried(c, "throws", "ok") =>
              /\ calls'.pc[c] = "genWait"
              /\ plat'.sensor[c] = "active"
        /\ (\E r \in {"denied", "throws"} : PermissionRequested(c, r)) =>
              /\ calls'.pc[c] = "doeFalse"
              /\ ~plat.doeListener[c] /\ ~plat.absListener[c]
              /\ Acquired' = Acquired
              /\ state' = state
    ]_vars

\* Both paths were aborted by their permission step and the call has ended:
\* no sensor, no listener, no timer, no handler reference, no angle.
C23_Witness ==
  /\ plat.hasAOS /\ plat.hasRequestPermission
  /\ calls.pc[1] = "failed"
  /\ plat.sensor[1] = "none"
  /\ ~plat.doeListener[1] /\ ~plat.absListener[1]
  /\ plat.timers = <<>>
  /\ state.sensorInstance = 0 /\ state.doeHandler = 0
  /\ state.rawGamma = 0 /\ state.rawBeta = 0

\* C24: in every reachable state the indicator is inside its box on both
\* axes, 0 <= dotPx <= 98 and 0 <= dotPy <= 98, and so is the position the
\* page shows.
C24_DotInRange ==
  /\ state.dotPx >= 0 /\ state.dotPx <= DOT_MAX
  /\ state.dotPy >= 0 /\ state.dotPy <= DOT_MAX
  /\ dom.dotLeft >= 0 /\ dom.dotLeft <= DOT_MAX
  /\ dom.dotTop >= 0 /\ dom.dotTop <= DOT_MAX

\* The dot was driven into a corner, put back in the centre by calibrate,
\* and has been driven into the corner at 0 and 98 since.
C24_Witness ==
  /\ state.calibrationOffset # 0
  /\ state.dotPx = 0 /\ state.dotVx = 0
  /\ state.dotPy = DOT_MAX /\ state.dotVy = 0
  /\ state.rawGamma = -Deg(90) /\ state.rawBeta = Deg(180)

\* The other run of a pair: it has seen the same events, so it has the same
\* raw angles and the same dot, but its smoothing switch, filter state and
\* calibration offset are sm, f and off.
OtherRun(sm, f, off) ==
  [World EXCEPT !.st.smoothingEnabled = sm,
                !.st.smoothedGamma = f,
                !.st.calibrationOffset = off]

\* The filter states and offsets the other run is given.
OtherAngles == {0, Deg(45), -Deg(90)}

\* The same state with the other axis of the indicator replaced.
OtherY(b, p, v) ==
  [World EXCEPT !.st.rawBeta = b, !.st.dotPy = p, !.st.dotVy = v]
OtherX(g, p, v) ==
  [World EXCEPT !.st.rawGamma = g, !.st.dotPx = p, !.st.dotVx = v]

\* C25: the indicator uses the raw angles only.  Step by step, for two runs
\* that receive the same events: a tick leaves the same dotPx, dotPy, dotVx
\* and dotVy in a run whose smoothing switch, filter state and calibration
\* offset are different; the x axis a tick leaves is the same whatever
\* rawBeta and the y axis are, and the y axis is the same whatever rawGamma
\* and the x axis are; and any other step leaves the dot where it is or, for
\* calibrate, at rest in the centre.
C25_RawOnly ==
  [][IF TickRan
       THEN /\ \A sm \in BOOLEAN, f \in OtherAngles, off \in OtherAngles :
                 \A o \in {tick(OtherRun(sm, f, off), plat'.now).st} :
                   <<o.dotPx, o.dotPy, o.dotVx, o.dotVy>> =
                     <<state'.dotPx, state'.dotPy, state'.dotVx, state'.dotVy>>
            /\ \A b \in {0, Deg(180)}, p \in {DOT_CENTER, DOT_MAX},
                  v \in {0, Deg(3)} :
                 /\ \A o \in {tick(OtherY(b, p, v), plat'.now).st} :
                      <<o.dotPx, o.dotVx>> = <<state'.dotPx, state'.dotVx>>
                 /\ \A o \in {tick(OtherX(b, p, v), plat'.now).st} :
                      <<o.dotPy, o.dotVy>> = <<state'.dotPy, state'.dotVy>>
       ELSE \/ <<state'.dotPx, state'.dotPy, state'.dotVx, state'.dotVy>> =
                 <<state.dotPx, state.dotPy, state.dotVx, state.dotVy>>
            \/ <<state'.dotPx, state'.dotPy, state'.dotVx, state'.dotVy>> =
                 <<DOT_CENTER, DOT_CENTER, 0, 0>>
    ]_vars

\* The dot is moving on both axes while the filter lags behind the raw angle
\* and a calibration offset is in force.
C25_Witness ==
  /\ state.calibrationOffset # 0
  /\ state.smoothedGamma # state.rawGamma
  /\ state.rawGamma # 0 /\ state.rawBeta # 0
  /\ state.dotVx # 0 /\ state.dotVy # 0
  /\ state.dotPx # DOT_CENTER /\ state.dotPy # DOT_CENTER

\* C26: calibrationOffset is 0 at the start and only calibrate() changes it,
\* to the filter state of that moment.  A render tick, a sensor callback, a
\* step of enableMotion (onMotionReady included), a change of the smoothing
\* or the debug switch, the start or the stop of a recording and destroy()
\* leave it as it is.
C26_OffsetOnlyByCalibrate ==
  /\ state.calibrationOffset = 0
  /\ [][
        /\ (state'.calibrationOffset # state.calibrationOffset) =>
              (Calibrate /\ state'.calibrationOffset = state.smoothedGamma)
        /\ ( \/ TickRan
             \/ state'.rawGamma # state.rawGamma
             \/ calls'.attempts # calls.attempts
             \/ calls'.pc # calls.pc
             \/ state'.motionEnabled # state.motionEnabled
             \/ state'.smoothingEnabled # state.smoothingEnabled
             \/ dom'.debugHidden # dom.debugHidden
             \/ state'.isRecording # state.isRecording
             \/ hist'.destroyed # hist.destroyed
             \/ plat'.timers # plat.timers ) =>
              state'.calibrationOffset = state.calibrationOffset
       ]_vars

\* With an offset of 5 degrees in force, the second enableMotion call has
\* run onMotionReady, a recording was started, the debug panel was opened,
\* smoothing was switched off, a frame was rendered, and the page was torn
\* down: the offset is still 5 degrees.
C26_Witness ==
  /\ state.calibrationOffset = Deg(5)
  /\ calls.pc = <<"ready", "ready">>
  /\ state.mediaRecorder # 0
  /\ ~dom.debugHidden
  /\ ~state.smoothingEnabled
  /\ dom.tiltValue = 0 /\ dom.rawText = 50
  /\ hist.destroyed

\* C27: no stale jump when smoothing is switched back on.  Whatever the
\* switch, a tick leaves in smoothedGamma the filtered value it published
\* (the rotation it shows is that value less the offset, negated); no other
\* step writes smoothedGamma; and a tick with smoothing on outputs
\* prev + 0.12 * (raw - prev) where prev is the smoothedGamma it finds, which
\* is therefore the output of the tick before it.
C27_NoStaleJump ==
  [][IF TickRan
       THEN /\ state'.smoothedGamma =
                 state.calibrationOffset - dom'.rotation
            /\ ~state.smoothingEnabled =>
                 state'.smoothedGamma = state.rawGamma
            /\ state.smoothingEnabled =>
                 state'.smoothedGamma =
                   lowPass(state.smoothedGamma, state.rawGamma)
       ELSE state'.smoothedGamma = state.smoothedGamma
    ]_vars

\* With smoothing off a tick showed 10 degrees; the device was laid flat and
\* smoothing switched on; the next tick left 8.8 = 10 + 0.12 * (0 - 10)
\* degrees and shows it.
C27_Witness ==
  /\ state.smoothingEnabled
  /\ state.rawGamma = 0
  /\ state.smoothedGamma = 88000
  /\ state.calibrationOffset = 0
  /\ dom.rotation = -88000

\* C28: there is at most one render loop.  In every reachable state at most
\* one animation frame request is outstanding, and it is the one whose
\* handle animFrameId holds; a step in which tick runs issues exactly one
\* request, so each frame runs tick once.  This holds when two overlapping
\* enableMotion calls both succeed and when destroy() is called in between.
C28_OneRenderLoop ==
  /\ [](Cardinality(plat.raf) <= 1
          /\ (plat.raf # {} => plat.raf = {state.animFrameId}))
  /\ [][TickRan =>
          /\ plat'.lastHandle = plat.lastHandle + 1
          /\ plat'.raf = {plat'.lastHandle}
       ]_vars

\* Both overlapping calls have run onMotionReady, the second one after
\* destroy() had cancelled the loop of the first: one request is outstanding.
C28_Witness ==
  /\ calls.pc = <<"ready", "ready">>
  /\ hist.destroyed
  /\ state.animFrameId # 0
  /\ plat.raf = {state.animFrameId}
  /\ plat.lastHandle >= 2

\* C29: the FPS accounting of a tick at time now.  With one more frame
\* counted and elapsed = now - lastFrameTime: when elapsed >= 500 ms,
\* currentFps becomes the integer nearest to count / elapsed * 1000, where
\* count includes this tick, frameCount becomes 0 and lastFrameTime becomes
\* now; otherwise frameCount is one more and lastFrameTime and currentFps
\* stay.  A step without a tick changes none of the three.
C29_FpsAccounting ==
  [][IF TickRan
       THEN \A n \in {state.frameCount + 1},
               elapsed \in {plat'.now - state.lastFrameTime} :
              IF elapsed >= FPS_SAMPLE_INTERVAL_MS
                THEN /\ 2 * state'.currentFps * elapsed - 2000 * n <= elapsed
                     /\ 2000 * n - 2 * state'.currentFps * elapsed < elapsed
                     /\ state'.frameCount = 0
                     /\ state'.lastFrameTime = plat'.now
                ELSE /\ state'.frameCount = n
                     /\ state'.lastFrameTime = state.lastFrameTime
                     /\ state'.currentFps = state.currentFps
       ELSE /\ state'.frameCount = state.frameCount
            /\ state'.lastFrameTime = state.lastFrameTime
            /\ state'.currentFps = state.currentFps
    ]_vars

\* A sample interval of three frames and 600 ms ended at 1200 ms and gave
\* 5 frames per second; one frame has been counted since.
C29_Witness ==
  /\ state.currentFps = 5
  /\ state.lastFrameTime = 1200
  /\ state.frameCount = 1
  /\ plat.now = 1400

\* The buttons a camera failure must leave alone.
Buttons ==
  <<dom.btnCameraDisabled, dom.btnMotionDisabled, dom.btnRecordDisabled,
    dom.btnCalibrateDisabled>>

C31_Terminates ==
  /\ \A c \in Calls :
       (calls.pc[c] # "idle") ~> (calls.pc[c] \in {"ready", "failed"})
  /\ [][\A c \in Calls :
          /\ calls.pc[c] \in {"ready", "failed"} => calls'.pc[c] = calls.pc[c]
          /\ (calls.pc[c] # "ready" /\ calls'.pc[c] = "ready") =>
                state'.motionEnabled /\ dom'.errorHidden
          /\ (calls.pc[c] # "failed" /\ calls'.pc[c] = "failed") =>
                /\ ~dom'.errorHidden
                /\ dom'.errorText = MotionUnavailable
                /\ state'.motionEnabled = state.motionEnabled
       ]_vars

\* No sensor event ever arrived: the generic sensor was started and its
\* timer resolved it, the orientation listeners were attached and their
\* timer resolved them, and the call has ended with the message.
C31_Witness ==
  /\ calls.pc[1] = "failed"
  /\ calls.genResolved[1] /\ calls.doeResolved[1]
  /\ calls.attempts[1] = 0
  /\ ~state.hasReceivedData
  /\ ~state.motionEnabled
  /\ plat.timers = <<>>

\* C32: no sensor session is leaked.  In every reachable state, every
\* AbsoluteOrientationSensor that was started and has not been stopped is
\* the one state.sensorInstance refers to, so that destroy() can stop it.
C32_Original ==
  \A c \in Calls : plat.sensor[c] = "active" => state.sensorInstance = c

\* C33: state is unchanged when the camera start fails.  Whenever
\* startCamera ends in its error branch, getUserMedia rejected or play()
\* rejected after the stream was obtained, state.cameraStream is null
\* afterwards.
C33_Original ==
  [][\A name \in ErrorNames :
       (GetUserMediaRejected(name) \/ PlayRejected(name)) =>
         state'.cameraStream = 0]_vars

====
